---- MODULE Spec2Model ----
(***************************************************************************)
(* Model of the corpus generator (src/generator.py) and of the             *)
(* symbolic/concrete transaction bridge (src/interface.py).                *)
(*                                                                         *)
(* Three parts of the program are modelled, each with its own              *)
(* specification over the shared variable tuple:                           *)
(*   SpecGen    CorpusGenerator: _init, step, _step                        *)
(*   SpecUpd    update_tx / update_argument on one record and one model    *)
(*   SpecStore  store_new_tx_sequence / get_available_filename, one or     *)
(*              several callers working in the same corpus directory       *)
(*   SpecSeq    the same, the calls made one after the other and the       *)
(*              original file one of the files of the directory            *)
(* A specification leaves the variables of the other parts at their idle   *)
(* values.                                                                 *)
(*                                                                         *)
(* Python strings are modelled as sequences of one-character strings, so   *)
(* that formatting (str, hex, f-strings), parsing (int) and the substring  *)
(* test (in) are computed and not assumed.                                 *)
(***************************************************************************)
EXTENDS Integers, Sequences, FiniteSets, TLC

VARIABLES
    \* ---- CorpusGenerator (src/generator.py)
    parents,               \* dataflow_graph: node -> set of parent nodes
    iter_order,            \* the order in which a set of nodes is iterated
    current_tx_sequences,  \* self.current_tx_sequences, a list of lists of nodes
    todo,                  \* rounds of the running step(n) call still to do
    rounds,                \* rounds of _step executed since _init
    \* ---- update_tx (src/interface.py)
    tx,                    \* the caller's dict: field -> value or object address
    heap,                  \* the objects the dict refers to: address -> object
    new_model,             \* the VarContext passed in: name -> value
    tx_idx,                \* i of tx_name = "tx{i}"
    ret,                   \* the dict update_tx returned
    exc,                   \* the exception update_tx raised, or "none"
    upc,                   \* "ready" before the call, "done" after it
    pre,                   \* the caller's record, by value, as it was at the call
    \* ---- store_new_tx_sequence (src/interface.py)
    original,              \* content of the original corpus file
    lowfull,               \* solved-input files _0 .. _(lowfull-1) exist
    others,                \* the other solved-input files: counter -> content
    pc,                    \* per caller: its position in store_new_tx_sequence
    data,                  \* per caller: the parsed original file
    model,                 \* per caller: its new_model
    new_data,              \* per caller: the updated transactions
    num,                   \* per caller: get_available_filename's counter
    new_file,              \* per caller: the allocated file name
    sexc                   \* per caller: the exception raised, or "none"

genVars == <<parents, iter_order, current_tx_sequences, todo, rounds>>
updVars == <<tx, heap, new_model, tx_idx, ret, exc, upc, pre>>
storeVars == <<original, lowfull, others, pc, data, model, new_data, num, new_file, sexc>>

vars == <<genVars, updVars, storeVars>>

(***************************************************************************)
(* Generic helpers                                                         *)
(***************************************************************************)
Range(s) == {s[i] : i \in DOMAIN s}

RECURSIVE Flatten(_)
\* Concatenation of a sequence of sequences (Python: list += list, in order).
Flatten(ss) == IF ss = <<>> THEN <<>> ELSE Head(ss) \o Flatten(Tail(ss))

(***************************************************************************)
(* CorpusGenerator                                                         *)
(***************************************************************************)
NumNodes == 3      \* nodes of the dataflow graph
MaxEdges == 3      \* dependency edges of the dataflow graph
MaxRounds == 2     \* rounds of _step in one behaviour
MaxStepArg == 2    \* largest n passed to step(n)

Node == 1..NumNodes

\* dataflow_graph.nodes, in the list's order
GraphNodes == [i \in 1..NumNodes |-> i]

\* The dataflow graphs: every node with a set of parents (self loops and
\* cycles included).
Graphs ==
    {g \in [Node -> SUBSET Node] :
        Cardinality({e \in Node \X Node : e[1] \in g[e[2]]}) <= MaxEdges}

\* Python leaves the iteration order of a set unspecified: it is modelled as
\* an arbitrary total order of the nodes, one per run.
IterOrders ==
    {o \in [1..NumNodes -> Node] : \A i, j \in 1..NumNodes : i # j => o[i] # o[j]}

\* list(S) for a set S iterated in order o
SetAsList(S, o) == SelectSeq(o, LAMBDA x : x \in S)

\* A variant that takes the parents of the first call of the sequence only.
ImpactsSeqHeadOnly(g, tx_seq) == g[tx_seq[1]]

\* set().union(*[n.parents for n in tx_seq])
ImpactsSeq(g, tx_seq) == UNION {g[tx_seq[i]] : i \in DOMAIN tx_seq}

\* A variant that appends the impacting call instead of prepending it.
AppendAll(g, tx_seq, o) ==
    LET impacts == SetAsList(ImpactsSeq(g, tx_seq), o)
    IN  [k \in DOMAIN impacts |-> tx_seq \o <<impacts[k]>>]

\* [[prev] + tx_seq for prev in impacts_seq]
PrependAll(g, tx_seq, o) ==
    LET impacts == SetAsList(ImpactsSeq(g, tx_seq), o)
    IN  [k \in DOMAIN impacts |-> <<impacts[k]>> \o tx_seq]

\* A variant that keeps a sequence no call impacts instead of dropping it.
StepSequencesKeepStagnant(g, seqs, o) ==
    Flatten([i \in DOMAIN seqs |->
                IF ImpactsSeq(g, seqs[i]) = {} THEN <<seqs[i]>>
                ELSE PrependAll(g, seqs[i], o)])

\* The value _step assigns to current_tx_sequences.
StepSequences(g, seqs, o) ==
    Flatten([i \in DOMAIN seqs |-> PrependAll(g, seqs[i], o)])

\* CorpusGenerator._init
InitSequences == [i \in DOMAIN GraphNodes |-> <<GraphNodes[i]>>]

\* current_seq_len
current_seq_len ==
    IF current_tx_sequences = <<>> THEN 0 ELSE Len(current_tx_sequences[1])

\* __init__: the graph is whatever the backend returned; _init has run.
InitGenVars ==
    /\ parents \in Graphs
    /\ iter_order \in IterOrders
    /\ current_tx_sequences = InitSequences
    /\ todo = 0
    /\ rounds = 0

\* step(n) is called: n rounds are to run.
step(n) ==
    /\ todo = 0
    /\ rounds + n <= MaxRounds
    /\ todo' = n
    /\ UNCHANGED <<parents, iter_order, current_tx_sequences, rounds>>
    /\ UNCHANGED <<updVars, storeVars>>

\* One iteration of step's loop: self._step().
_step ==
    /\ todo > 0
    /\ current_tx_sequences' = StepSequences(parents, current_tx_sequences, iter_order)
    /\ todo' = todo - 1
    /\ rounds' = rounds + 1
    /\ UNCHANGED <<parents, iter_order>>
    /\ UNCHANGED <<updVars, storeVars>>

StepCall == \E n \in 0..MaxStepArg : step(n)


(***************************************************************************)
(* Python strings and integers                                             *)
(***************************************************************************)
DigitChars == <<"0", "1", "2", "3", "4", "5", "6", "7", "8", "9",
                "a", "b", "c", "d", "e", "f">>

RECURSIVE Digits(_, _)
\* The digits of n >= 0 in the given base, most significant first.
Digits(n, base) ==
    IF n < base THEN <<DigitChars[n + 1]>>
    ELSE Digits(n \div base, base) \o <<DigitChars[(n % base) + 1]>>

\* str(n) for an int
PyStr(n) == IF n < 0 THEN <<"-">> \o Digits(-n, 10) ELSE Digits(n, 10)

\* hex(n) for an int
PyHex(n) ==
    IF n < 0 THEN <<"-", "0", "x">> \o Digits(-n, 16)
    ELSE <<"0", "x">> \o Digits(n, 16)

\* f"{n:0{w}x}" for n >= 0: lower-case hex, zero-padded on the left to width w
HexPadded(n, w) ==
    LET d == Digits(n, 16)
    IN  IF Len(d) >= w THEN d ELSE [i \in 1..(w - Len(d)) |-> "0"] \o d

DigitValue(c) == CHOOSE v \in 0..15 : DigitChars[v + 1] = c

RECURSIVE DigitsValue(_, _)
\* The number a non-empty digit sequence denotes in the given base.
DigitsValue(d, base) ==
    IF Len(d) = 1 THEN DigitValue(d[1])
    ELSE DigitsValue(SubSeq(d, 1, Len(d) - 1), base) * base + DigitValue(d[Len(d)])

\* int(s) for a decimal string
PyInt(s) ==
    IF Head(s) = "-" THEN 0 - DigitsValue(Tail(s), 10) ELSE DigitsValue(s, 10)

\* int(s, 16) for a "0x..." string
PyIntHex(s) == DigitsValue(SubSeq(s, 3, Len(s)), 16)

\* Python's substring test: needle in hay
Contains(needle, hay) ==
    \E i \in 0..(Len(hay) - Len(needle)) : SubSeq(hay, i + 1, i + Len(needle)) = needle

\* n & 0xFF for n >= 0
AndFF(n) == n % 256

RECURSIVE Pow2(_)
Pow2(b) == IF b = 0 THEN 1 ELSE 2 * Pow2(b - 1)

\* common.util.twos_complement_convert: the value of the low `bits` bits of
\* arg read as a signed two's-complement number.
twos_complement_convert(arg, bits) ==
    IF arg < Pow2(bits - 1) THEN arg ELSE arg - Pow2(bits)

\* common.util.int_to_bool
int_to_bool(v) == v # 0

RECURSIVE EncodeBytes(_)
\* The escaped text of a byte list: each byte as a backslash and its decimal code.
EncodeBytes(bs) ==
    IF bs = <<>> THEN <<>>
    ELSE <<"\\">> \o Digits(Head(bs), 10) \o EncodeBytes(Tail(bs))

\* common.util.echidna_encode_bytes: the quoted, escaped text of a byte list
echidna_encode_bytes(bs) == <<"\"">> \o EncodeBytes(bs) \o <<"\"">>

RECURSIVE ParseEscapes(_, _)
\* The byte list of an escaped text; cur is the code read so far (-1: none).
ParseEscapes(s, cur) ==
    IF s = <<>> THEN (IF cur < 0 THEN <<>> ELSE <<cur>>)
    ELSE IF Head(s) = "\\"
         THEN (IF cur < 0 THEN <<>> ELSE <<cur>>) \o ParseEscapes(Tail(s), 0)
         ELSE ParseEscapes(Tail(s), (IF cur < 0 THEN 0 ELSE cur) * 10 + DigitValue(Head(s)))

\* common.util.echidna_parse_bytes: the byte list of a quoted, escaped text
echidna_parse_bytes(s) == ParseEscapes(SubSeq(s, 2, Len(s) - 1), -1)


(***************************************************************************)
(* Argument trees, transaction records and models                          *)
(***************************************************************************)
\* The tags update_argument handles.
AbiUInt == <<"A", "b", "i", "U", "I", "n", "t">>
AbiInt == <<"A", "b", "i", "I", "n", "t">>
AbiBool == <<"A", "b", "i", "B", "o", "o", "l">>
AbiAddress == <<"A", "b", "i", "A", "d", "d", "r", "e", "s", "s">>
AbiBytes == <<"A", "b", "i", "B", "y", "t", "e", "s">>
AbiBytesDynamic == <<"A", "b", "i", "B", "y", "t", "e", "s", "D", "y", "n", "a", "m", "i", "c">>
AbiString == <<"A", "b", "i", "S", "t", "r", "i", "n", "g">>
AbiTuple == <<"A", "b", "i", "T", "u", "p", "l", "e">>
AbiArray == <<"A", "b", "i", "A", "r", "r", "a", "y">>
AbiArrayDynamic == <<"A", "b", "i", "A", "r", "r", "a", "y", "D", "y", "n", "a", "m", "i", "c">>

\* Two tags update_argument does not handle: the tag translate_argument_type
\* accepts for a bare uint type, and one that contains "Tuple".
AbiUIntType == <<"A", "b", "i", "U", "I", "n", "t", "T", "y", "p", "e">>
AbiTupleType == <<"A", "b", "i", "T", "u", "p", "l", "e", "T", "y", "p", "e">>

KnownTags ==
    {AbiUInt, AbiInt, AbiBool, AbiAddress, AbiBytes, AbiBytesDynamic, AbiString,
     AbiTuple, AbiArray, AbiArrayDynamic}

SolCall == <<"S", "o", "l", "C", "a", "l", "l">>
NoCall == <<"N", "o", "C", "a", "l", "l">>

\* The words is_array_like_type looks for in a tag.
ArrayLikeWords == {<<"T", "u", "p", "l", "e">>, <<"A", "r", "r", "a", "y">>, <<"B", "y", "t", "e", "s">>, <<"S", "t", "r", "i", "n", "g">>}

\* Name pieces of the symbolic variables.
S_tx == <<"t", "x">>
S_arg == <<"_", "a", "r", "g">>
S_sender == <<"_", "s", "e", "n", "d", "e", "r">>
S_value == <<"_", "v", "a", "l", "u", "e">>
S_block_num_inc == <<"_", "b", "l", "o", "c", "k", "_", "n", "u", "m", "_", "i", "n", "c">>
S_block_timestamp_inc == <<"_", "b", "l", "o", "c", "k", "_", "t", "i", "m", "e", "s", "t", "a", "m", "p", "_", "i", "n", "c">>

\* f"tx{i}"
TxName(i) == S_tx \o PyStr(i)
\* f"{tx_name}_arg{i}"
ArgName(tx_name, i) == tx_name \o S_arg \o PyStr(i)
\* f"{tx_name}_sender", f"{tx_name}_value", ...
FieldName(tx_name, role) == tx_name \o role

(***************************************************************************)
(* update_argument                                                         *)
(***************************************************************************)
\* VarContext.contains, VarContext.get, VarContext.contained_vars
ModelContains(m, name) == name \in DOMAIN m
ModelGet(m, name) == m[name]
ContainedVars(m) == DOMAIN m

\* is_array_like_type
is_array_like_type(arg_type) == \E x \in ArrayLikeWords : Contains(x, arg_type)

\* A variant that numbers the elements from 1.
SubArgNameFromOne(arg_name, i) == arg_name \o <<"_">> \o PyStr(i + 1)

\* f"{arg_name}_{i}": the name of element i of a tuple or an array, and of
\* byte i of a bytes-like argument
SubArgName(arg_name, i) == arg_name \o <<"_">> \o PyStr(i)

\* A variant that writes the model's value without masking it to a byte.
UpdateBytesLikeNoMask(arg_name, length, val, m) ==
    [val |-> [k \in DOMAIN val |->
                 IF k - 1 < length /\ ModelContains(m, SubArgName(arg_name, k - 1))
                 THEN ModelGet(m, SubArgName(arg_name, k - 1))
                 ELSE val[k]],
     exc |-> IF \E i \in Len(val)..(length - 1) : ModelContains(m, SubArgName(arg_name, i))
             THEN "IndexError" ELSE "none"]

\* _update_bytes_like_argument: val with byte i overwritten for every
\* i < length the model names; writing past the end of val is an IndexError.
UpdateBytesLike(arg_name, length, val, m) ==
    [val |-> [k \in DOMAIN val |->
                 IF k - 1 < length /\ ModelContains(m, SubArgName(arg_name, k - 1))
                 THEN AndFF(ModelGet(m, SubArgName(arg_name, k - 1)))
                 ELSE val[k]],
     exc |-> IF \E i \in Len(val)..(length - 1) : ModelContains(m, SubArgName(arg_name, i))
             THEN "IndexError" ELSE "none"]

\* A variant that writes the model's value without the signed conversion.
UpdateIntNoConvert(arg, v) == [arg EXCEPT !.contents[2] = PyStr(v)]

\* The AbiInt branch: the model's value, converted at the declared width.
UpdateInt(arg, v) ==
    [arg EXCEPT !.contents[2] = PyStr(twos_complement_convert(v, arg.contents[1]))]

\* The test that makes update_argument return without touching arg.
NothingToUpdate(arg, arg_name, m) ==
    \/ /\ is_array_like_type(arg.tag)
       /\ \A var \in ContainedVars(m) : ~Contains(arg_name, var)
    \/ /\ ~is_array_like_type(arg.tag)
       /\ ~ModelContains(m, arg_name)

\* Where a loop over calls that may raise stops: the position of the first
\* result with an exception, or one past the end.
FirstRaise(rs) ==
    IF \A k \in DOMAIN rs : rs[k].exc = "none" THEN Len(rs) + 1
    ELSE CHOOSE k \in DOMAIN rs :
            rs[k].exc # "none" /\ \A j \in 1..(k - 1) : rs[j].exc = "none"

\* The outcome of a loop that updates the elements in order and in place,
\* given each element's own outcome rs[k]: the elements up to the first
\* exception are as their update left them, the later ones untouched.
LoopOutcome(els, rs) ==
    LET f == FirstRaise(rs)
    IN  [els |-> [k \in DOMAIN els |-> IF k <= f THEN rs[k].arg ELSE els[k]],
         exc |-> IF f > Len(rs) THEN "none" ELSE rs[f].exc]

RECURSIVE UpdateArgument(_, _, _)

\* update_argument: the argument as it is when the call ends, and the
\* exception it raised ("none": it returned).
UpdateArgument(arg, arg_name, m) ==
    LET argType == arg.tag IN
    IF NothingToUpdate(arg, arg_name, m) THEN [arg |-> arg, exc |-> "none"]
    ELSE IF argType = AbiUInt THEN
        [arg |-> [arg EXCEPT !.contents[2] = PyStr(ModelGet(m, arg_name))], exc |-> "none"]
    ELSE IF argType = AbiInt THEN
        [arg |-> UpdateInt(arg, ModelGet(m, arg_name)), exc |-> "none"]
    ELSE IF argType = AbiBool THEN
        [arg |-> [arg EXCEPT !.contents = int_to_bool(ModelGet(m, arg_name))], exc |-> "none"]
    ELSE IF argType = AbiAddress THEN
        [arg |-> [arg EXCEPT !.contents = PyHex(ModelGet(m, arg_name))], exc |-> "none"]
    ELSE IF argType = AbiBytes THEN
        LET r == UpdateBytesLike(arg_name, arg.contents[1],
                                 echidna_parse_bytes(arg.contents[2]), m)
        IN  IF r.exc # "none" THEN [arg |-> arg, exc |-> r.exc]
            ELSE [arg |-> [arg EXCEPT !.contents[2] = echidna_encode_bytes(r.val)],
                  exc |-> "none"]
    ELSE IF argType \in {AbiBytesDynamic, AbiString} THEN
        LET val == echidna_parse_bytes(arg.contents)
            r == UpdateBytesLike(arg_name, Len(val), val, m)
        IN  IF r.exc # "none" THEN [arg |-> arg, exc |-> r.exc]
            ELSE [arg |-> [arg EXCEPT !.contents = echidna_encode_bytes(r.val)],
                  exc |-> "none"]
    ELSE IF argType \in {AbiTuple, AbiArray, AbiArrayDynamic} THEN
        \* the elements are contents (tuple), contents[2] (array) or
        \* contents[1] (dynamic array); update_argument recurses on each
        LET els == IF argType = AbiTuple THEN arg.contents
                   ELSE IF argType = AbiArray THEN arg.contents[3]
                   ELSE arg.contents[2]
            r == LoopOutcome(els, [k \in DOMAIN els |->
                     UpdateArgument(els[k], SubArgName(arg_name, k - 1), m)])
        IN  [arg |-> IF argType = AbiTuple THEN [arg EXCEPT !.contents = r.els]
                     ELSE IF argType = AbiArray THEN [arg EXCEPT !.contents[3] = r.els]
                     ELSE [arg EXCEPT !.contents[2] = r.els],
             exc |-> r.exc]
    ELSE [arg |-> arg, exc |-> "EchidnaException"]

(***************************************************************************)
(* update_tx                                                               *)
(***************************************************************************)
AddrWidth == 40

\* What update_tx leaves in ret when it raises.
NoRet == [_none |-> TRUE]

\* The loop over the call's arguments:
\* update_argument(arg, f"{tx_name}_arg{i}", new_model) for each, in order.
UpdateArgs(args, tx_name, m) ==
    LoopOutcome(args, [k \in DOMAIN args |->
                          UpdateArgument(args[k], ArgName(tx_name, k - 1), m)])

\* tx["_delay"] after the two conditional writes; _delay[0] is the timestamp
\* increment and _delay[1] the block number increment.
UpdateDelay(delay, m, tx_name) ==
    LET block_num_inc == FieldName(tx_name, S_block_num_inc)
        block_timestamp_inc == FieldName(tx_name, S_block_timestamp_inc)
        d1 == IF ModelContains(m, block_num_inc)
              THEN [delay EXCEPT ![2] = PyHex(ModelGet(m, block_num_inc))]
              ELSE delay
    IN  IF ModelContains(m, block_timestamp_inc)
        THEN [d1 EXCEPT ![1] = PyHex(ModelGet(m, block_timestamp_inc))]
        ELSE d1

\* The top-level dict update_tx returns: the copy with _src and _value rebound.
UpdateTopLevel(t, m, tx_name) ==
    LET sender == FieldName(tx_name, S_sender)
        value == FieldName(tx_name, S_value)
        t1 == IF ModelContains(m, sender)
              THEN [t EXCEPT !._src = <<"0", "x">> \o HexPadded(ModelGet(m, sender), AddrWidth)]
              ELSE t
    IN  IF ModelContains(m, value)
        THEN [t1 EXCEPT !._value = PyHex(ModelGet(m, value))]
        ELSE t1

\* update_tx(t, m, tx_name) on heap h: the dict returned, the heap after the
\* call and the exception raised.  tx.copy() copies the top-level dict only:
\* the copy's _call and _delay are the caller's objects.
UpdateTx(t, h, m, tx_name) ==
    LET call == h[t._call] IN
    IF "contents" \notin DOMAIN call
    THEN [ret |-> NoRet, heap |-> h, exc |-> "KeyError"]
    ELSE IF Len(call.contents) < 2
    THEN [ret |-> NoRet, heap |-> h, exc |-> "IndexError"]
    ELSE LET r == UpdateArgs(call.contents[2], tx_name, m)
             h1 == [h EXCEPT ![t._call].contents[2] = r.els]
         IN  IF r.exc # "none" THEN [ret |-> NoRet, heap |-> h1, exc |-> r.exc]
             ELSE [ret |-> UpdateTopLevel(t, m, tx_name),
                   heap |-> [h1 EXCEPT ![t._delay] = UpdateDelay(h1[t._delay], m, tx_name)],
                   exc |-> "none"]

\* A dict with the objects it refers to in place of their addresses.
Deep(t, h) == [t EXCEPT !._call = h[t._call], !._delay = h[t._delay]]

(***************************************************************************)
(* The records, models and transaction indexes update_tx is run on         *)
(***************************************************************************)
MaxModelVars == 2    \* variables a model assigns

\* Argument nodes as Echidna serialises them.
UIntArg(bits, v) == [tag |-> AbiUInt, contents |-> <<bits, PyStr(v)>>]
IntArg(bits, v) == [tag |-> AbiInt, contents |-> <<bits, PyStr(v)>>]
BoolArg(b) == [tag |-> AbiBool, contents |-> b]
AddressArg(n) == [tag |-> AbiAddress, contents |-> PyHex(n)]
BytesArg(bs) == [tag |-> AbiBytes, contents |-> <<Len(bs), echidna_encode_bytes(bs)>>]
BytesDynamicArg(bs) == [tag |-> AbiBytesDynamic, contents |-> echidna_encode_bytes(bs)]
StringArg(bs) == [tag |-> AbiString, contents |-> echidna_encode_bytes(bs)]
TupleArg(els) == [tag |-> AbiTuple, contents |-> els]
ArrayArg(ty, els) == [tag |-> AbiArray, contents |-> <<Len(els), ty, els>>]
ArrayDynamicArg(ty, els) == [tag |-> AbiArrayDynamic, contents |-> <<ty, els>>]
\* Nodes whose tag update_argument does not know.
UIntTypeArg(bits) == [tag |-> AbiUIntType, contents |-> bits]
TupleTypeArg(els) == [tag |-> AbiTupleType, contents |-> els]

\* A transaction record, by value.
TxRecord(call) ==
    [_call |-> call,
     _delay |-> <<PyHex(16), PyHex(2)>>,
     _src |-> <<"0", "x">> \o HexPadded(65536, AddrWidth),
     _value |-> PyHex(0),
     _dst |-> <<"0", "x">> \o HexPadded(2748, AddrWidth),
     _gas |-> PyHex(12500000),
     _gasprice |-> PyHex(0)]

CallWith(args) == [tag |-> SolCall, contents |-> <<<<"f">>, args>>]

\* The argument lists of the records.
ArgLists ==
    << <<UIntArg(8, 5), IntArg(8, -3)>>,
       <<TupleArg(<<UIntArg(8, 7), BytesDynamicArg(<<1, 2>>)>>), BoolArg(FALSE)>>,
       <<BytesDynamicArg(<<65, 66>>)>>,
       <<StringArg(<<104, 105, 33>>)>>,
       <<BytesArg(<<1, 255>>), IntArg(16, 9)>>,
       <<ArrayDynamicArg(UIntTypeArg(8), <<IntArg(8, 1), IntArg(8, -1)>>)>>,
       <<ArrayArg(UIntTypeArg(160), <<AddressArg(16), AddressArg(32)>>), UIntArg(8, 0)>>,
       <<TupleArg(<<TupleArg(<<UIntArg(8, 3), IntArg(8, 4)>>), AddressArg(5)>>)>>,
       <<UIntTypeArg(8)>>,
       <<UIntArg(8, 1), TupleTypeArg(<<UIntArg(8, 2)>>)>>,
       <<>> >>

\* The records: a call with each argument list, a call that carries no
\* argument list, and the no-call marker.
Records ==
    [i \in DOMAIN ArgLists |-> TxRecord(CallWith(ArgLists[i]))]
    \o <<TxRecord([tag |-> SolCall, contents |-> <<<<"f">>>>]),
         TxRecord([tag |-> NoCall])>>

\* The caller's dict for a record: its _call and _delay are object addresses.
DictOf(d) == [d EXCEPT !._call = "call_obj", !._delay = "delay_obj"]
\* The objects a record's dict refers to.
ObjectsOf(d) == [call_obj |-> d._call, delay_obj |-> d._delay]

TxIndexes == {0, 1}

\* The variable names the models draw from.
ModelNames ==
    LET t0 == TxName(0)
        a0 == ArgName(t0, 0)
        a1 == ArgName(t0, 1)
    IN  {FieldName(t0, S_sender), FieldName(t0, S_value),
         FieldName(t0, S_block_num_inc), FieldName(t0, S_block_timestamp_inc),
         a0, a1, SubArgName(a0, 0), SubArgName(a0, 1),
         SubArgName(SubArgName(a0, 1), 0), SubArgName(SubArgName(a0, 0), 1),
         FieldName(TxName(1), S_sender), ArgName(TxName(1), 0)}

ModelValues == {1, 200, 300}

\* The models: at most MaxModelVars variables, each with a value.
Models ==
    UNION {[S -> ModelValues] :
              S \in {T \in SUBSET ModelNames : Cardinality(T) <= MaxModelVars}}

InitUpdVars ==
    /\ \E i \in DOMAIN Records :
          /\ pre = Records[i]
          /\ tx = DictOf(Records[i])
          /\ heap = ObjectsOf(Records[i])
    /\ new_model \in Models
    /\ tx_idx \in TxIndexes
    /\ ret = NoRet
    /\ exc = "none"
    /\ upc = "ready"

\* update_tx(tx, new_model, f"tx{tx_idx}") is called and ends.
update_tx ==
    /\ upc = "ready"
    /\ LET r == UpdateTx(tx, heap, new_model, TxName(tx_idx))
       IN  /\ ret' = r.ret
           /\ heap' = r.heap
           /\ exc' = r.exc
    /\ upc' = "done"
    /\ UNCHANGED <<tx, new_model, tx_idx, pre>>
    /\ UNCHANGED <<genVars, storeVars>>

(***************************************************************************)
(* store_new_tx_sequence and get_available_filename                        *)
(***************************************************************************)
NumWriters == 2    \* callers of store_new_tx_sequence
MaxLow == 2        \* solved-input files _0 .. _(n-1) present at the start, n <= MaxLow

num_max == 100000

Proc == 1..NumWriters

NEW_INPUT_PREFIX == <<"o", "p", "t", "i", "k", "_", "s", "o", "l", "v", "e", "d", "_", "i", "n", "p", "u", "t">>
CorpusDir == <<"c", "o", "r", "p", "u", "s">>
TxtSuffix == <<".", "t", "x", "t">>

\* f"{os.path.dirname(original_file)}/{NEW_INPUT_PREFIX}"
NewInputPrefix == CorpusDir \o <<"/">> \o NEW_INPUT_PREFIX

\* f"{prefix}_{num}{suffix}"
FileName(prefix, n, suffix) == prefix \o <<"_">> \o PyStr(n) \o suffix

\* Whether name is f"{prefix}_{n}{suffix}" for some counter n below bound.
IsLowName(name, prefix, suffix, bound) ==
    LET lp == Len(prefix) + 1
        ls == Len(suffix)
        digits == SubSeq(name, lp + 1, Len(name) - ls)
    IN  /\ Len(name) > lp + ls
        /\ SubSeq(name, 1, lp) = prefix \o <<"_">>
        /\ SubSeq(name, Len(name) - ls + 1, Len(name)) = suffix
        /\ \A i \in DOMAIN digits : \E v \in 0..9 : DigitChars[v + 1] = digits[i]
        /\ digits = PyStr(DigitsValue(digits, 10))
        /\ DigitsValue(digits, 10) < bound

\* os.path.exists(name) in a directory that holds the solved-input files
\* _0 .. _(low-1) and the files of oth.
PathExists(name, low, oth) ==
    name \in DOMAIN oth \/ IsLowName(name, NewInputPrefix, TxtSuffix, low)

\* A variant that tests the name of the next counter.
ScanContinuesNextName(n, low, oth) ==
    PathExists(FileName(NewInputPrefix, n + 1, TxtSuffix), low, oth) /\ n < num_max

\* The loop condition of get_available_filename.
ScanContinues(n, low, oth) ==
    PathExists(FileName(NewInputPrefix, n, TxtSuffix), low, oth) /\ n < num_max

\* The content of a file: what json.dump wrote, or nothing yet (just opened).
Written(d) == [written |-> TRUE, json |-> d]
EmptyFile == [written |-> FALSE, json |-> <<>>]

\* The loop of store_new_tx_sequence over the parsed transactions:
\* update_tx(tx, new_model, f"tx{i}") for each, in order, each on the objects
\* json.loads made for it.  data as the loop leaves it, the list of the
\* returned records and the exception raised.
UpdateAllTx(d, m) ==
    LET rs == [k \in DOMAIN d |->
                  UpdateTx(DictOf(d[k]), ObjectsOf(d[k]), m, TxName(k - 1))]
        f == FirstRaise(rs)
    IN  [data |-> [k \in DOMAIN d |->
                      IF k <= f THEN Deep(DictOf(d[k]), rs[k].heap) ELSE d[k]],
         new_data |-> IF f <= Len(d) THEN <<>>
                      ELSE [k \in DOMAIN d |-> Deep(rs[k].ret, rs[k].heap)],
         exc |-> IF f > Len(d) THEN "none" ELSE rs[f].exc]

\* The original corpus files.
OriginalFiles ==
    << <<Records[1], Records[2]>>,
       <<Records[3], Records[13]>>,
       <<Records[1]>> >>

\* The models store_new_tx_sequence is called with.
StoreModels ==
    LET a0 == ArgName(TxName(0), 0)
    IN  << (a0 :> 200) @@ (FieldName(TxName(1), S_sender) :> 1),
           (FieldName(TxName(0), S_sender) :> 300) @@ (SubArgName(a0, 1) :> 300) >>

\* A solved-input file left by an earlier run.
OldContent == Written(<<Records[11]>>)

\* The corpus directories at the start: [low, oth, callers].  The small ones
\* are worked in by every caller; the ones with (nearly) every counter taken
\* by one caller.
SmallDirs ==
    {[low |-> l, gap |-> g, callers |-> Proc] : l \in 0..MaxLow, g \in {0, 1, 2}}
LargeDirs ==
    {[low |-> l, gap |-> 0, callers |-> {1}] : l \in {num_max - 1, num_max}}

\* The files of a directory besides _0 .. _(low-1): none, or one at the
\* counter gap above low.
OthersOf(dir) ==
    IF dir.gap = 0 THEN <<>>
    ELSE FileName(NewInputPrefix, dir.low + dir.gap, TxtSuffix) :> OldContent

\* The directory of the example: _0 .. _4 present.
ExampleDirs == {[low |-> 5, gap |-> 0, callers |-> {1}]}

InitStoreVars ==
    /\ \E dir \in SmallDirs \cup ExampleDirs \cup LargeDirs :
          /\ lowfull = dir.low
          /\ others = OthersOf(dir)
          /\ pc = [p \in Proc |-> IF p \in dir.callers THEN "idle" ELSE "off"]
          /\ \E i \in DOMAIN OriginalFiles :
                /\ dir \in LargeDirs => i = 3
                /\ original = OriginalFiles[i]
    /\ data = [p \in Proc |-> <<>>]
    /\ model = [p \in Proc |-> <<>>]
    /\ new_data = [p \in Proc |-> <<>>]
    /\ num = [p \in Proc |-> 0]
    /\ new_file = [p \in Proc |-> <<>>]
    /\ sexc = [p \in Proc |-> "none"]

\* A variant that starts from the content of the latest stored file, when
\* there is one, instead of reading the original file.
StoreCallFromLastStore(p, m) ==
    /\ pc[p] = "idle"
    /\ data' = [data EXCEPT ![p] =
                    IF \E q \in Proc : pc[q] = "done"
                    THEN others[new_file[CHOOSE q \in Proc : pc[q] = "done"]].json
                    ELSE original]
    /\ model' = [model EXCEPT ![p] = m]
    /\ pc' = [pc EXCEPT ![p] = "update"]
    /\ UNCHANGED <<original, lowfull, others, new_data, num, new_file, sexc>>
    /\ UNCHANGED <<genVars, updVars>>

\* store_new_tx_sequence(original_file, m) is called: the original file is
\* read and parsed.
StoreCall(p, m) ==
    /\ pc[p] = "idle"
    /\ data' = [data EXCEPT ![p] = original]
    /\ model' = [model EXCEPT ![p] = m]
    /\ pc' = [pc EXCEPT ![p] = "update"]
    /\ UNCHANGED <<original, lowfull, others, new_data, num, new_file, sexc>>
    /\ UNCHANGED <<genVars, updVars>>

\* The loop over the transactions, then the entry of get_available_filename.
UpdateAll(p) ==
    /\ pc[p] = "update"
    /\ LET r == UpdateAllTx(data[p], model[p])
       IN  /\ data' = [data EXCEPT ![p] = r.data]
           /\ new_data' = [new_data EXCEPT ![p] = r.new_data]
           /\ sexc' = [sexc EXCEPT ![p] = r.exc]
           /\ pc' = [pc EXCEPT ![p] = IF r.exc # "none" THEN "raised" ELSE "scan"]
    /\ num' = [num EXCEPT ![p] = 0]
    /\ UNCHANGED <<original, lowfull, others, model, new_file>>
    /\ UNCHANGED <<genVars, updVars>>

\* One iteration of get_available_filename's loop.
ScanNext(p) ==
    /\ pc[p] = "scan"
    /\ ScanContinues(num[p], lowfull, others)
    /\ num' = [num EXCEPT ![p] = num[p] + 1]
    /\ UNCHANGED <<original, lowfull, others, pc, data, model, new_data, new_file, sexc>>
    /\ UNCHANGED <<genVars, updVars>>

\* The loop ends: get_available_filename raises or returns the name.
ScanEnd(p) ==
    /\ pc[p] = "scan"
    /\ ~ScanContinues(num[p], lowfull, others)
    /\ IF num[p] >= num_max
       THEN /\ sexc' = [sexc EXCEPT ![p] = "GenericException"]
            /\ pc' = [pc EXCEPT ![p] = "raised"]
            /\ UNCHANGED new_file
       ELSE /\ new_file' = [new_file EXCEPT ![p] = FileName(NewInputPrefix, num[p], TxtSuffix)]
            /\ pc' = [pc EXCEPT ![p] = "open"]
            /\ UNCHANGED sexc
    /\ UNCHANGED <<original, lowfull, others, data, model, new_data, num>>
    /\ UNCHANGED <<genVars, updVars>>

\* open(new_file, "w"): the file is created, or truncated if it exists.
OpenWrite(p) ==
    /\ pc[p] = "open"
    /\ others' = (new_file[p] :> EmptyFile) @@ others
    /\ pc' = [pc EXCEPT ![p] = "dump"]
    /\ UNCHANGED <<original, lowfull, data, model, new_data, num, new_file, sexc>>
    /\ UNCHANGED <<genVars, updVars>>

\* json.dump(new_data, f), and the file is closed.
Dump(p) ==
    /\ pc[p] = "dump"
    /\ others' = (new_file[p] :> Written(new_data[p])) @@ others
    /\ pc' = [pc EXCEPT ![p] = "done"]
    /\ UNCHANGED <<original, lowfull, data, model, new_data, num, new_file, sexc>>
    /\ UNCHANGED <<genVars, updVars>>

StoreCalls == \E p \in Proc : \E i \in DOMAIN StoreModels : StoreCall(p, StoreModels[i])
UpdateAlls == \E p \in Proc : UpdateAll(p)
ScanNexts == \E p \in Proc : ScanNext(p)
ScanEnds == \E p \in Proc : ScanEnd(p)
OpenWrites == \E p \in Proc : OpenWrite(p)
Dumps == \E p \in Proc : Dump(p)

\* The original file when it is itself a solved input of an earlier run, the
\* case in which its name is one get_available_filename could produce: its
\* counter lies above every file of the small directories.
OriginalFile == FileName(NewInputPrefix, MaxLow + 3, TxtSuffix)

\* The corpus directory before a sequence of calls made one after the other:
\* as before, and the original file is one of its files.
InitSeqVars ==
    /\ \E dir \in SmallDirs \cup ExampleDirs \cup LargeDirs :
          /\ lowfull = dir.low
          /\ pc = [p \in Proc |-> IF p \in dir.callers THEN "idle" ELSE "off"]
          /\ \E i \in DOMAIN OriginalFiles :
                /\ dir \in LargeDirs => i = 3
                /\ original = OriginalFiles[i]
                /\ others = (OriginalFile :> Written(OriginalFiles[i])) @@ OthersOf(dir)
    /\ data = [p \in Proc |-> <<>>]
    /\ model = [p \in Proc |-> <<>>]
    /\ new_data = [p \in Proc |-> <<>>]
    /\ num = [p \in Proc |-> 0]
    /\ new_file = [p \in Proc |-> <<>>]
    /\ sexc = [p \in Proc |-> "none"]

\* Whether a call of store_new_tx_sequence has started and not yet ended.
CallRunning == \E q \in Proc : pc[q] \in {"update", "scan", "open", "dump"}

\* store_new_tx_sequence is called when no other call is running.
SeqStoreCall(p, m) == ~CallRunning /\ StoreCall(p, m)

SeqStoreCalls ==
    \E p \in Proc : \E i \in DOMAIN StoreModels : SeqStoreCall(p, StoreModels[i])

(***************************************************************************)
(* Specifications                                                          *)
(***************************************************************************)
IdleGenVars ==
    /\ parents = [n \in Node |-> {}]
    /\ iter_order = GraphNodes
    /\ current_tx_sequences = <<>>
    /\ todo = 0
    /\ rounds = 0

IdleUpdVars ==
    /\ tx = NoRet
    /\ heap = NoRet
    /\ new_model = <<>>
    /\ tx_idx = 0
    /\ ret = NoRet
    /\ exc = "none"
    /\ upc = "off"
    /\ pre = NoRet

IdleStoreVars ==
    /\ original = <<>>
    /\ lowfull = 0
    /\ others = <<>>
    /\ pc = [p \in Proc |-> "off"]
    /\ data = [p \in Proc |-> <<>>]
    /\ model = [p \in Proc |-> <<>>]
    /\ new_data = [p \in Proc |-> <<>>]
    /\ num = [p \in Proc |-> 0]
    /\ new_file = [p \in Proc |-> <<>>]
    /\ sexc = [p \in Proc |-> "none"]

InitGen == InitGenVars /\ IdleUpdVars /\ IdleStoreVars
NextGen == StepCall \/ _step
SpecGen == InitGen /\ [][NextGen]_vars

InitUpd == InitUpdVars /\ IdleGenVars /\ IdleStoreVars
NextUpd == update_tx
SpecUpd == InitUpd /\ [][NextUpd]_vars

InitStore == InitStoreVars /\ IdleGenVars /\ IdleUpdVars
NextStore == StoreCalls \/ UpdateAlls \/ ScanNexts \/ ScanEnds \/ OpenWrites \/ Dumps
SpecStore == InitStore /\ [][NextStore]_vars

InitSeq == InitSeqVars /\ IdleGenVars /\ IdleUpdVars
NextSeq == SeqStoreCalls \/ UpdateAlls \/ ScanNexts \/ ScanEnds \/ OpenWrites \/ Dumps
SpecSeq == InitSeq /\ [][NextSeq]_vars

(***************************************************************************)
(* Properties                                                              *)
(***************************************************************************)

\* C1: after _init and n rounds of _step (step(n), or several step calls
\* that add up to n), every sequence of current_tx_sequences has length
\* exactly 1 + n; so all live sequences have the same length after every
\* round.
C1_LengthIsOnePlusRounds ==
    \A i \in DOMAIN current_tx_sequences : Len(current_tx_sequences[i]) = 1 + rounds

C1_Witness ==
    /\ todo = 0
    /\ rounds = 2
    /\ Len(current_tx_sequences) >= 2
    /\ current_seq_len = 3

\* The sequences one round must produce from seqs: [p] + s for every s of
\* seqs and every parent p of a node of s.
Successors(g, seqs) ==
    {<<e[2]>> \o seqs[e[1]] :
        e \in {x \in (DOMAIN seqs) \X Node :
                  \E k \in DOMAIN seqs[x[1]] : x[2] \in g[seqs[x[1]][k]]}}

NoDuplicates(s) == \A i, j \in DOMAIN s : i # j => s[i] # s[j]

\* C2: one round of _step replaces the active set by exactly the sequences
\* [p] + s, s a live sequence and p a parent of a node of s, each once; a
\* sequence without parents has no successor, and with no dependency edge at
\* all the active set is empty after the round.
C2_RoundPrependsEachParent ==
    [][rounds' = rounds + 1 =>
          /\ Range(current_tx_sequences') = Successors(parents, current_tx_sequences)
          /\ NoDuplicates(current_tx_sequences')
          /\ (\A n \in Node : parents[n] = {}) => current_tx_sequences' = <<>>]_vars

C2_Witness ==
    /\ rounds = 1
    /\ \E n \in Node : parents[n] = {}
    /\ \E n \in Node : Cardinality(parents[n]) >= 2
    /\ Len(current_tx_sequences) >= 2

\* C3: update_tx never mutates the caller's record: after the call the
\* record passed in, nested call arguments, _delay, _src and _value included,
\* is deep-equal to what it was before the call.
C3_CallerRecordUnchanged ==
    upc = "done" => Deep(tx, heap) = pre

\* C4: for every record (a call with or without an argument list, or the
\* no-call marker) update_tx with an empty model returns normally, and the
\* record returned is deep-equal to the original.
C4_EmptyModelIsNoOp ==
    (upc = "done" /\ DOMAIN new_model = {}) =>
        (exc = "none" /\ Deep(ret, heap) = pre)

\* The arguments of the call of a record that has an argument list.
ArgsOf(rec) == rec._call.contents[2]
HasArgs(rec) == "contents" \in DOMAIN rec._call /\ Len(rec._call.contents) >= 2

\* The name of element i below the node named name.
ElementName(name, i) == name \o <<"_">> \o PyStr(i)

ContainerTags == {AbiTuple, AbiArray, AbiArrayDynamic}
ScalarTags == {AbiUInt, AbiInt, AbiBool, AbiAddress}

RECURSIVE LeavesOf(_, _)
\* The leaves of an argument tree, left to right, each with the name the
\* naming scheme gives it: one _<index> per tuple or array level.
LeavesOf(arg, name) ==
    IF arg.tag \in ContainerTags
    THEN LET els == IF arg.tag = AbiTuple THEN arg.contents
                    ELSE IF arg.tag = AbiArray THEN arg.contents[3]
                    ELSE arg.contents[2]
         IN  Flatten([k \in DOMAIN els |-> LeavesOf(els[k], ElementName(name, k - 1))])
    ELSE <<[name |-> name, node |-> arg]>>

\* The leaves of the arguments of a record's call at transaction index i.
RecordLeaves(rec, i) ==
    LET args == ArgsOf(rec)
    IN  Flatten([j \in DOMAIN args |->
            LeavesOf(args[j], <<"t", "x">> \o PyStr(i) \o <<"_", "a", "r", "g">> \o PyStr(j - 1))])

\* The name of a top-level field's variable at transaction index i.
RoleName(i, role) == <<"t", "x">> \o PyStr(i) \o <<"_">> \o role

\* Whether a scalar leaf holds the value v of the model.
HoldsValue(node, v) ==
    IF node.tag = AbiUInt THEN PyInt(node.contents[2]) = v
    ELSE IF node.tag = AbiInt
    THEN LET b == node.contents[1]
             s == PyInt(node.contents[2])
         IN  (0 <= v /\ v < Pow2(b)) =>
                 /\ 0 - Pow2(b - 1) <= s /\ s < Pow2(b - 1)
                 /\ (s - v) % Pow2(b) = 0
    ELSE IF node.tag = AbiBool THEN node.contents = (v # 0)
    ELSE PyIntHex(node.contents) = v

\* C5: a partial model changes only what it names.  When update_tx returns
\* for a record with a call at transaction index i: sender, value, block
\* number delta and timestamp delta keep their value unless tx{i}_<role> is in
\* the model, and then hold the model's value; a scalar leaf of the argument
\* tree keeps its value unless its name, tx{i}_arg{j} plus one _<index> per
\* nesting level, is in the model, and then holds the model's value.
C5_PartialModelChangesOnlyNamed ==
    (upc = "done" /\ exc = "none") =>
        LET after == Deep(ret, heap)
            m == new_model
            sender == RoleName(tx_idx, <<"s", "e", "n", "d", "e", "r">>)
            value == RoleName(tx_idx, <<"v", "a", "l", "u", "e">>)
            bnum == RoleName(tx_idx, <<"b", "l", "o", "c", "k", "_", "n", "u", "m", "_", "i", "n", "c">>)
            btime == RoleName(tx_idx, <<"b", "l", "o", "c", "k", "_", "t", "i", "m", "e", "s", "t", "a", "m", "p", "_", "i", "n", "c">>)
            lb == RecordLeaves(pre, tx_idx)
            la == RecordLeaves(after, tx_idx)
        IN  /\ IF sender \in DOMAIN m THEN PyIntHex(after._src) = m[sender]
               ELSE after._src = pre._src
            /\ IF value \in DOMAIN m THEN PyIntHex(after._value) = m[value]
               ELSE after._value = pre._value
            /\ IF bnum \in DOMAIN m THEN PyIntHex(after._delay[2]) = m[bnum]
               ELSE after._delay[2] = pre._delay[2]
            /\ IF btime \in DOMAIN m THEN PyIntHex(after._delay[1]) = m[btime]
               ELSE after._delay[1] = pre._delay[1]
            /\ after._dst = pre._dst /\ after._gas = pre._gas
            /\ after._gasprice = pre._gasprice
            /\ Len(la) = Len(lb)
            /\ \A k \in DOMAIN lb :
                  /\ la[k].node.tag = lb[k].node.tag
                  /\ lb[k].node.tag \in ScalarTags =>
                        IF lb[k].name \in DOMAIN m
                        THEN HoldsValue(la[k].node, m[lb[k].name])
                        ELSE la[k].node = lb[k].node

\* The record ((uint8 3, int8 4), address 5) updated by a model that names
\* the sender and the nested int8 only: the int8 holds the model's value, its
\* neighbours are as they were.
C5_Witness ==
    /\ upc = "done" /\ exc = "none" /\ tx_idx = 0
    /\ HasArgs(pre) /\ Len(ArgsOf(pre)) = 1
    /\ ArgsOf(pre)[1].tag = AbiTuple
    /\ ArgsOf(pre)[1].contents[1].tag = AbiTuple
    /\ DOMAIN new_model =
          {RoleName(0, <<"s", "e", "n", "d", "e", "r">>),
           <<"t", "x", "0", "_", "a", "r", "g", "0", "_", "0", "_", "1">>}
    /\ new_model[<<"t", "x", "0", "_", "a", "r", "g", "0", "_", "0", "_", "1">>] = 1
    /\ LET la == RecordLeaves(Deep(ret, heap), 0)
       IN  /\ la[1].node = UIntArg(8, 3)
           /\ la[2].node = IntArg(8, 1)
           /\ la[3].node = AddressArg(5)
    /\ ret._src # pre._src

\* Whether p is a proper prefix of s.
IsPrefix(p, s) == Len(p) < Len(s) /\ SubSeq(s, 1, Len(p)) = p

\* C6: for a dynamic-bytes or string argument of length L named v and a model
\* whose only entry for that argument is v_k, 0 <= k < L, the updated
\* argument has L bytes, byte k is model[v_k] & 0xFF and every other byte is
\* the original one.
C6_SingleByteUpdate ==
    (upc = "done" /\ exc = "none") =>
        LET lb == RecordLeaves(pre, tx_idx)
            la == RecordLeaves(Deep(ret, heap), tx_idx)
        IN  \A i \in DOMAIN lb :
               lb[i].node.tag \in {AbiBytesDynamic, AbiString} =>
                  LET v == lb[i].name
                      old == echidna_parse_bytes(lb[i].node.contents)
                      new == echidna_parse_bytes(la[i].node.contents)
                      named == {n \in DOMAIN new_model : IsPrefix(v, n)}
                  IN  \A k \in 0..(Len(old) - 1) :
                         named = {ElementName(v, k)} =>
                            /\ Len(new) = Len(old)
                            /\ new[k + 1] = new_model[ElementName(v, k)] % 256
                            /\ \A j \in 1..Len(old) : j # k + 1 => new[j] = old[j]

C6_Witness ==
    /\ upc = "done" /\ exc = "none" /\ tx_idx = 0
    /\ HasArgs(pre) /\ Len(ArgsOf(pre)) = 1
    /\ ArgsOf(pre)[1].tag = AbiBytesDynamic
    /\ ArgsOf(pre)[1].contents = echidna_encode_bytes(<<65, 66>>)
    /\ DOMAIN new_model = {<<"t", "x", "0", "_", "a", "r", "g", "0", "_", "1">>}
    /\ new_model[<<"t", "x", "0", "_", "a", "r", "g", "0", "_", "1">>] = 300
    /\ ArgsOf(Deep(ret, heap))[1].contents = echidna_encode_bytes(<<65, 44>>)

\* C7: update_argument fails closed on unknown tags: an argument whose tag is
\* outside the enumerated set ends the call in the unsupported-argument-type
\* error for any model, a model with no entry for the argument included.
C7_UnknownTagRaises ==
    (/\ upc = "done"
     /\ HasArgs(pre)
     /\ \E j \in DOMAIN ArgsOf(pre) : ArgsOf(pre)[j].tag \notin KnownTags)
    => exc = "EchidnaException"

\* C8: for an AbiInt argument of width b named in the model with a value v,
\* 0 <= v < 2^b, the decimal stored is v when v < 2^(b-1) and v - 2^b
\* otherwise (width 8, value 200: -56); an AbiUInt argument stores v as it is.
C8_SignedUpdateIsTwosComplement ==
    (upc = "done" /\ exc = "none") =>
        LET lb == RecordLeaves(pre, tx_idx)
            la == RecordLeaves(Deep(ret, heap), tx_idx)
        IN  \A i \in DOMAIN lb :
               lb[i].name \in DOMAIN new_model =>
                  LET v == new_model[lb[i].name]
                      b == lb[i].node.contents[1]
                  IN  /\ lb[i].node.tag = AbiUInt =>
                            /\ la[i].node.contents[2] = PyStr(v)
                            /\ la[i].node.contents[1] = b
                      /\ (lb[i].node.tag = AbiInt /\ 0 <= v /\ v < Pow2(b)) =>
                            /\ la[i].node.contents[2] =
                                  PyStr(IF v < Pow2(b - 1) THEN v ELSE v - Pow2(b))
                            /\ la[i].node.contents[1] = b

C8_Witness ==
    /\ upc = "done" /\ exc = "none" /\ tx_idx = 0
    /\ HasArgs(pre) /\ Len(ArgsOf(pre)) = 2
    /\ ArgsOf(pre)[2].tag = AbiInt
    /\ ArgsOf(pre)[2].contents = <<8, <<"-", "3">>>>
    /\ DOMAIN new_model = {<<"t", "x", "0", "_", "a", "r", "g", "1">>}
    /\ new_model[<<"t", "x", "0", "_", "a", "r", "g", "1">>] = 200
    /\ ArgsOf(Deep(ret, heap))[2].contents = <<8, <<"-", "5", "6">>>>

\* Whether caller p is the only one that has started.
SoleCaller(p) == \A q \in Proc \ {p} : pc[q] \in {"idle", "off"}

\* Whether the solved-input file with counter n is in the directory.
CounterTaken(n) ==
    n < lowfull \/ FileName(NewInputPrefix, n, TxtSuffix) \in DOMAIN others

\* C9: get_available_filename(prefix, suffix) returns <prefix>_<n><suffix>
\* with n the smallest counter whose file does not exist, whenever a counter
\* below 100000 is free; when 0..99999 are all taken it raises the generic
\* error and returns no name.
C9_SmallestFreeCounter ==
    \A p \in Proc :
        SoleCaller(p) =>
            /\ pc[p] = "open" =>
                  /\ new_file[p] = NewInputPrefix \o <<"_">> \o PyStr(num[p]) \o TxtSuffix
                  /\ num[p] < num_max
                  /\ ~CounterTaken(num[p])
                  /\ \A n \in 0..(num[p] - 1) : CounterTaken(n)
            /\ (pc[p] = "raised" /\ sexc[p] = "GenericException") =>
                  /\ new_file[p] = <<>>
                  /\ \A n \in 0..(num_max - 1) : CounterTaken(n)

C9_Witness ==
    /\ lowfull = 5
    /\ pc[1] = "open"
    /\ SoleCaller(1)
    /\ new_file[1] = NewInputPrefix \o <<"_", "5">> \o TxtSuffix

\* C10: interleaved store_new_tx_sequence calls in the same directory never
\* write to the same output file name.
C10_WritersNeverShareAName ==
    \A p, q \in Proc :
        (p # q /\ pc[p] \in {"dump", "done"} /\ pc[q] \in {"dump", "done"}) =>
            new_file[p] # new_file[q]

\* Whether name is a file of the directory.
FileExists(name) ==
    name \in DOMAIN others \/ IsLowName(name, NewInputPrefix, TxtSuffix, lowfull)

\* What one step of a call may do to the directory: no file disappears; a
\* file appears only when the call opens its output, under a name that did
\* not exist, and it is the only one; the content of a file changes only
\* when the call writes into the output file it has just created.
StepKeepsFiles ==
    /\ original' = original
    /\ lowfull' = lowfull
    /\ DOMAIN others \subseteq DOMAIN others'
    /\ DOMAIN others' # DOMAIN others =>
          \E p \in Proc :
              /\ pc[p] = "open" /\ pc'[p] = "dump"
              /\ ~FileExists(new_file[p])
              /\ DOMAIN others' = DOMAIN others \cup {new_file[p]}
    /\ \A name \in DOMAIN others :
          others'[name] # others[name] =>
              \E p \in Proc :
                  /\ pc[p] = "dump" /\ pc'[p] = "done"
                  /\ name = new_file[p]
                  /\ name # OriginalFile
                  /\ others[name] = EmptyFile

\* What the calls that have returned left: the original file as it was, and
\* for every call its own output file holding the original's transactions
\* updated with the call's model.
CallsLeaveFiles ==
    /\ OriginalFile \in DOMAIN others
    /\ others[OriginalFile] = Written(original)
    /\ \A p \in Proc :
          pc[p] = "done" =>
              /\ new_file[p] \in DOMAIN others
              /\ new_file[p] # OriginalFile
              /\ others[new_file[p]] = Written(UpdateAllTx(original, model[p]).new_data)
    /\ \A p \in Proc :
          pc[p] = "raised" => new_file[p] \notin DOMAIN others
    /\ \A p, q \in Proc :
          (p # q /\ pc[p] = "done" /\ pc[q] = "done") => new_file[p] # new_file[q]

\* C11: when store_new_tx_sequence calls are made one after the other, every
\* file that was in the corpus directory before a call, the original file
\* and the outputs of earlier calls included, is still there with the same
\* content after it; a call that returns has added exactly one file, under
\* a name that did not exist, and a call that raises none; the new file holds
\* the transactions of the original file updated with the call's model, not
\* those of an earlier output.
C11_SequentialStoresKeepFiles ==
    []CallsLeaveFiles /\ [][StepKeepsFiles]_vars

C11_Witness ==
    /\ lowfull = 1
    /\ FileName(NewInputPrefix, 2, TxtSuffix) \in DOMAIN others
    /\ pc[1] = "done" /\ pc[2] = "done"
    /\ model[1] = StoreModels[1] /\ model[2] = StoreModels[2]
    /\ new_file[1] = FileName(NewInputPrefix, 1, TxtSuffix)
    /\ new_file[2] = FileName(NewInputPrefix, 3, TxtSuffix)
    /\ Len(original) = 2
    /\ others[new_file[2]].json # others[new_file[1]].json
    /\ others[new_file[2]].json # original

\* The parents of the nodes of s.
ParentUnion(s) == {p \in Node : \E k \in DOMAIN s : p \in parents[s[k]]}

\* Whether the round that led to seqs2 gave s a successor [p] + s.
HasSuccessor(s, seqs2) == \E j \in DOMAIN seqs2 : seqs2[j] # <<>> /\ Tail(seqs2[j]) = s

\* Every live sequence of length >= 2 starts with a parent of a node that
\* follows it, so its parent union is not empty; and after at least one
\* round the active set is empty exactly when the graph has no edge.
LiveSequencesHaveParents ==
    /\ \A i \in DOMAIN current_tx_sequences :
          LET s == current_tx_sequences[i]
          IN  Len(s) >= 2 =>
                  /\ \E k \in 2..Len(s) : s[1] \in parents[s[k]]
                  /\ ParentUnion(s) # {}
    /\ rounds >= 1 =>
          (current_tx_sequences = <<>> <=> \A n \in Node : parents[n] = {})

\* A round gives every sequence of length >= 2 a successor, drops sequences
\* in the first round only and, from round 1 onward, does not shrink the
\* active set.
RoundKeepsLongSequences ==
    rounds' = rounds + 1 =>
        /\ \A i \in DOMAIN current_tx_sequences :
              LET s == current_tx_sequences[i]
              IN  /\ Len(s) >= 2 => HasSuccessor(s, current_tx_sequences')
                  /\ ~HasSuccessor(s, current_tx_sequences') => rounds = 0
        /\ rounds >= 1 => Len(current_tx_sequences') >= Len(current_tx_sequences)

\* C12: in every round each live sequence of length >= 2 has as its first
\* node a parent of a node that follows it, so it always yields a successor;
\* sequences are dropped in the first round only, from round 1 onward the
\* number of live sequences never decreases, and after step(n), n >= 1, the
\* active set is empty if and only if the graph has no dependency edge,
\* acyclic graphs included.
C12_OnlyFirstRoundDrops ==
    []LiveSequencesHaveParents /\ [][RoundKeepsLongSequences]_vars

\* The acyclic graph 1 -> 2 with the isolated node 3, after two rounds.
C12_Witness ==
    /\ parents = (1 :> {}) @@ (2 :> {1}) @@ (3 :> {})
    /\ rounds = 2
    /\ todo = 0
    /\ current_tx_sequences = << <<1, 1, 2>> >>

====
